---- MODULE Spec2Model ----
(***************************************************************************)
(* Model of sectoralarm/session.py: the response validator, the short-date *)
(* normaliser and the Session's operation methods.                         *)
(*                                                                         *)
(* Python strings that the code inspects character by character (the date  *)
(* strings) are sequences of one-character strings.  Every Python call has *)
(* an outcome record: it returns a value or raises an exception.           *)
(***************************************************************************)
EXTENDS Integers, Sequences, FiniteSets, TLC

(***************************************************************************)
(* Outcomes of a Python call.                                              *)
(***************************************************************************)
Return(v) == [kind |-> "return", val |-> v, exc |-> "", arg |-> <<>>]

Raise(e, a) == [kind |-> "raise", val |-> <<>>, exc |-> e, arg |-> a]

(***************************************************************************)
(* Characters and decimal formatting.                                      *)
(***************************************************************************)
Digits == <<"0", "1", "2", "3", "4", "5", "6", "7", "8", "9">>

IsDigit(c) == \E i \in 1..10 : Digits[i] = c

DigitVal(c) == (CHOOSE i \in 1..10 : Digits[i] = c) - 1

\* "%02d" % n
Fmt2(n) == <<Digits[((n \div 10) % 10) + 1], Digits[(n % 10) + 1]>>

\* "%04d" % n
Fmt4(n) ==
    <<Digits[((n \div 1000) % 10) + 1], Digits[((n \div 100) % 10) + 1]>> \o Fmt2(n % 100)

\* str[:n] of Python: the first n characters, or all of a shorter string
Prefix(s, n) == IF Len(s) <= n THEN s ELSE SubSeq(s, 1, n)

\* str[n:] of Python: what follows the first n characters
Suffix(s, n) == IF Len(s) <= n THEN <<>> ELSE SubSeq(s, n + 1, Len(s))

(***************************************************************************)
(* The calendar of datetime.                                               *)
(***************************************************************************)
IsLeap(y) == (y % 4 = 0) /\ ((y % 100 # 0) \/ (y % 400 = 0))

DaysInMonth(y, m) ==
    IF m = 2 THEN (IF IsLeap(y) THEN 29 ELSE 28)
    ELSE IF m \in {4, 6, 9, 11} THEN 30 ELSE 31

\* datetime(y, m, d, ...) accepts the date
ValidDate(y, m, d) == m \in 1..12 /\ d >= 1 /\ d <= DaysInMonth(y, m)

(***************************************************************************)
(* datetime.strptime(date_string, '%m/%d %H:%M').  The format compiles to  *)
(*   (1[0-2]|0[1-9]|[1-9])/(3[01]|[12]\d|0[1-9]|[1-9]| [1-9])\s+           *)
(*   (2[0-3]|[0-1]\d|\d):([0-5]\d|\d)                                      *)
(* which must match the whole string; the fields then build a datetime of  *)
(* the default year, which rejects a day the month does not have.          *)
(***************************************************************************)
MonthTok(t) ==
    \/ Len(t) = 2 /\ t[1] = "1" /\ t[2] \in {"0", "1", "2"}
    \/ Len(t) = 2 /\ t[1] = "0" /\ IsDigit(t[2]) /\ t[2] # "0"
    \/ Len(t) = 1 /\ IsDigit(t[1]) /\ t[1] # "0"

DayTok(t) ==
    \/ Len(t) = 2 /\ t[1] = "3" /\ t[2] \in {"0", "1"}
    \/ Len(t) = 2 /\ t[1] \in {"1", "2"} /\ IsDigit(t[2])
    \/ Len(t) = 2 /\ t[1] \in {"0", " "} /\ IsDigit(t[2]) /\ t[2] # "0"
    \/ Len(t) = 1 /\ IsDigit(t[1]) /\ t[1] # "0"

HourTok(t) ==
    \/ Len(t) = 2 /\ t[1] = "2" /\ t[2] \in {"0", "1", "2", "3"}
    \/ Len(t) = 2 /\ t[1] \in {"0", "1"} /\ IsDigit(t[2])
    \/ Len(t) = 1 /\ IsDigit(t[1])

MinuteTok(t) ==
    \/ Len(t) = 2 /\ t[1] \in {"0", "1", "2", "3", "4", "5"} /\ IsDigit(t[2])
    \/ Len(t) = 1 /\ IsDigit(t[1])

\* int() of a matched field
TokVal(t) ==
    IF Len(t) = 1 THEN DigitVal(t[1])
    ELSE (IF t[1] = " " THEN 0 ELSE 10 * DigitVal(t[1])) + DigitVal(t[2])

AllSpaces(t) == \A i \in 1..Len(t) : t[i] = " "

\* The ways the regular expression matches all of s: <<i, j, k, l>> with the
\* month in 1..i-1, "/" at i, the day in i+1..j, white space in j+1..k, the
\* hour in k+1..l-1, ":" at l and the minute in l+1..Len(s).
Matches(s) ==
    {p \in (2..3) \X (3..5) \X (4..Len(s)) \X (6..Len(s)) :
        /\ p[1] < p[2] /\ p[2] < p[3] /\ p[3] + 1 < p[4] /\ p[4] < Len(s)
        /\ s[p[1]] = "/"
        /\ s[p[4]] = ":"
        /\ MonthTok(SubSeq(s, 1, p[1] - 1))
        /\ DayTok(SubSeq(s, p[1] + 1, p[2]))
        /\ AllSpaces(SubSeq(s, p[2] + 1, p[3]))
        /\ HourTok(SubSeq(s, p[3] + 1, p[4] - 1))
        /\ MinuteTok(SubSeq(s, p[4] + 1, Len(s)))}

DefaultYear == 1900

strptime(s) ==
    IF Matches(s) = {} THEN Raise("ValueError", s)
    ELSE LET p == CHOOSE q \in Matches(s) : TRUE
             month == TokVal(SubSeq(s, 1, p[1] - 1))
             day == TokVal(SubSeq(s, p[1] + 1, p[2]))
             hour == TokVal(SubSeq(s, p[3] + 1, p[4] - 1))
             minute == TokVal(SubSeq(s, p[4] + 1, Len(s)))
         IN  IF ValidDate(DefaultYear, month, day)
             THEN Return([year |-> DefaultYear, month |-> month, day |-> day,
                          hour |-> hour, minute |-> minute])
             ELSE Raise("ValueError", s)

\* datetime.isoformat() of a datetime with second 0 and microsecond 0
isoformat(dt) ==
    Fmt4(dt.year) \o <<"-">> \o Fmt2(dt.month) \o <<"-">> \o Fmt2(dt.day) \o <<"T">>
        \o Fmt2(dt.hour) \o <<":">> \o Fmt2(dt.minute) \o <<":", "0", "0">>

\* datetime.now().strftime('%m/%d')
strftime_md(now) == Fmt2(now.month) \o <<"/">> \o Fmt2(now.day)

Today == <<"T", "o", "d", "a", "y">>

Yesterday == <<"Y", "e", "s", "t", "e", "r", "d", "a", "y">>

(***************************************************************************)
(* fix_date_short(date_string).  The except clause returns only for the    *)
(* two prefixes; otherwise control reaches the return with result unbound. *)
(***************************************************************************)
\* lines 24-25: the body of the try block; result.replace(year) builds a new
\* datetime and raises ValueError for a day the month does not have that year
try_block(date_string, now) ==
    LET parsed == strptime(date_string)
    IN  IF parsed.kind = "raise" THEN parsed
        ELSE IF ValidDate(now.year, parsed.val.month, parsed.val.day)
             THEN Return([parsed.val EXCEPT !.year = now.year])
             ELSE Raise("ValueError", date_string)

RECURSIVE fix_date_short(_, _)
fix_date_short(date_string, now) ==
    LET result == try_block(date_string, now)
    IN  IF result.kind = "return"
        THEN Return(isoformat(result.val))
        ELSE IF Prefix(date_string, 5) = Today
             THEN fix_date_short(strftime_md(now) \o Suffix(date_string, 5), now)
             ELSE IF Prefix(date_string, 9) = Yesterday
                  THEN fix_date_short(strftime_md(now) \o Suffix(date_string, 9), now)
                  ELSE Raise("UnboundLocalError", <<>>)

(***************************************************************************)
(* The inputs of the date normaliser: reference instants and strings.      *)
(***************************************************************************)
Date(y, m, d) == [year |-> y, month |-> m, day |-> d]

\* reference instants datetime.now() can report: an ordinary day, the leap
\* day, the last day of a year, and a day of a year that is not a leap year.
\* The date does not change while a call of fix_date_short runs.
RefNows == {Date(2024, 3, 5), Date(2024, 2, 29), Date(2024, 12, 31), Date(2023, 1, 1)}

Sp == <<" ">>

T1430 == <<"1", "4", ":", "3", "0">>

T0900 == <<"0", "9", ":", "0", "0">>

D0305 == <<"0", "3", "/", "0", "5">>

D0229 == <<"0", "2", "/", "2", "9">>

DateParts ==
    {D0305, D0229, <<"0", "2", "/", "2", "8">>,
     <<"1", "2", "/", "3", "1">>, <<"0", "1", "/", "0", "1">>, <<"3", "/", "5">>,
     <<"0", "2", "/", "3", "0">>, <<"1", "3", "/", "0", "1">>, <<"0", "0", "/", "1", "0">>,
     <<"0", "4", "/", "3", "1">>,
     Today, Yesterday, <<"t", "o", "d", "a", "y">>, <<"T", "o", "m", "o", "r", "r", "o", "w">>}

TimeParts ==
    {T1430, T0900, <<"2", "3", ":", "5", "9">>,
     <<"9", ":", "5">>, <<"2", "4", ":", "0", "0">>, <<"1", "2", ":", "6", "0">>,
     <<"a", "b", ":", "c", "d">>, <<"1", "4", ":", "3", "0", "x">>}

NotADate == <<"n", "o", "t", "-", "a", "-", "d", "a", "t", "e">>

DateStrings ==
    {d \o Sp \o t : d \in DateParts, t \in TimeParts}
        \cup {NotADate, <<>>, Today, Yesterday, Today \o Sp, Today \o Today \o Sp \o T1430}

(***************************************************************************)
(* JSON.  A document is the Python value json.loads returns: a dict is a   *)
(* record, a list a sequence, a string that the code only compares a TLA+  *)
(* string, a date string a sequence of characters.  The body of a response *)
(* is text; dumps writes a document as text and json_loads reads it back.  *)
(***************************************************************************)
MaxLogs == 2

MaxReadings == 2

RECURSIVE Str(_)
Str(s) == IF s = <<>> THEN "" ELSE Head(s) \o Str(Tail(s))

Quoted(s) == "\"" \o s \o "\""

SeqsUpTo(S, n) == UNION {[1..k -> S] : k \in 0..n}

ArmDoc(t) == [ArmedStatus |-> "disarmed", timeex |-> t]

Row(t) == [time |-> t, event |-> "Disarmed"]

HistoryDoc(rows) == [logs |-> rows]

Reading(sn, temp) == [serialNo |-> sn, temperature |-> temp]

TempDoc(list) == [temperatureComponentList |-> list]

OkDoc == [status |-> "success"]

ErrDoc == [msg |-> "bad"]

EmptyDoc == <<>>

\* the date strings the server puts in documents
ArmTimes ==
    {Today \o Sp \o T1430, Yesterday \o Sp \o T0900, D0305 \o Sp \o T1430,
     D0229 \o Sp \o T1430, <<"1", "2", "/", "3", "1">> \o Sp \o T0900,
     NotADate, Today \o Sp \o <<"a", "b", ":", "c", "d">>, <<"3", "/", "5">> \o Sp \o <<"9", ":", "5">>}

LogTimes == {Today \o Sp \o T1430, D0305 \o Sp \o T0900, NotADate}

Readings == {Reading(sn, temp) : sn \in {"ABC123", "XYZ999"}, temp \in {"20.5", "21.0"}}

JsonDocs ==
    {ArmDoc(t) : t \in ArmTimes}
        \cup {HistoryDoc(rows) : rows \in SeqsUpTo({Row(t) : t \in LogTimes}, MaxLogs)}
        \cup {TempDoc(list) : list \in SeqsUpTo(Readings, MaxReadings)}
        \cup {OkDoc, ErrDoc, EmptyDoc}

RECURSIVE Join(_)
Join(texts) ==
    IF texts = <<>> THEN ""
    ELSE IF Len(texts) = 1 THEN texts[1]
    ELSE texts[1] \o ", " \o Join(Tail(texts))

DumpsRow(r) ==
    "{\"time\": " \o Quoted(Str(r.time)) \o ", \"event\": " \o Quoted(r.event) \o "}"

DumpsReading(r) ==
    "{\"serialNo\": " \o Quoted(r.serialNo) \o ", \"temperature\": " \o Quoted(r.temperature) \o "}"

dumps(d) ==
    IF "timeex" \in DOMAIN d
    THEN "{\"ArmedStatus\": " \o Quoted(d.ArmedStatus) \o ", \"timeex\": "
             \o Quoted(Str(d.timeex)) \o "}"
    ELSE IF "logs" \in DOMAIN d
    THEN "{\"logs\": [" \o Join([i \in 1..Len(d.logs) |-> DumpsRow(d.logs[i])]) \o "]}"
    ELSE IF "temperatureComponentList" \in DOMAIN d
    THEN "{\"temperatureComponentList\": ["
             \o Join([i \in 1..Len(d.temperatureComponentList) |->
                         DumpsReading(d.temperatureComponentList[i])]) \o "]}"
    ELSE IF "status" \in DOMAIN d THEN "{\"status\": " \o Quoted(d.status) \o "}"
    ELSE IF "msg" \in DOMAIN d THEN "{\"msg\": " \o Quoted(d.msg) \o "}"
    ELSE "{}"

\* every document with its text
JsonTable == {<<dumps(d), d>> : d \in JsonDocs}

\* texts that are no JSON document
Garbage == {"<html>Service unavailable</html>", "", "{\"msg\": "}

\* json.loads(text), also what response.json() does with the body of a
\* response (the server labels its bodies application/json)
json_loads(text) ==
    LET found == {p \in JsonTable : p[1] = text}
    IN  IF found # {} THEN Return((CHOOSE p \in found : TRUE)[2])
        ELSE Raise("JSONDecodeError", <<text>>)

(***************************************************************************)
(* _validate_response(response).  The response is aiohttp's ClientResponse:*)
(* it has a status attribute and the coroutine methods json() and text(),  *)
(* and no status_code attribute.                                           *)
(***************************************************************************)
ClientResponseAttributes ==
    {"status", "reason", "headers", "url", "method", "cookies", "content",
     "json", "text", "read", "release", "close"}

ClientResponse(status, body) == [status |-> status, body |-> body]

\* what response.text evaluates to: the bound method, not the body
BoundMethod(name) == [type |-> "method", name |-> name]

\* ResponseError.__init__(status_code, text), lines 54-61: line 61 decodes text
ResponseError(status_code, text) ==
    IF text.type # "str" THEN Raise("TypeError", <<text.type>>)
    ELSE LET decoded == json_loads(text.value)
         IN  IF decoded.kind = "raise" THEN decoded
             ELSE Raise("ResponseError", <<status_code, decoded.val>>)

_validate_response(response) ==
    IF response.status = 200
    THEN json_loads(response.body)
    ELSE IF "status_code" \notin ClientResponseAttributes
         THEN Raise("AttributeError", <<"status_code">>)
         ELSE ResponseError(response.status, BoundMethod("text"))

Statuses == {200, 201, 204, 302, 400, 401, 403, 404, 500, 503}

Bodies == {dumps(ErrDoc), dumps(OkDoc), dumps(EmptyDoc)} \cup Garbage

NoResponse == [status |-> 0, body |-> ""]

(***************************************************************************)
(* The Session.  self holds the attributes __init__ sets (lines 75-78) and *)
(* no others.  A call of an operation method is a coroutine: it runs up to *)
(* its await of the HTTP request, resumes with the response, awaits the    *)
(* body in _validate_response, and finishes.                               *)
(***************************************************************************)
NCalls == 2

Operations ==
    {"get_arm_state", "get_temperature", "get_ethernet_status", "get_lock_devices",
     "get_lock_status", "set_arm_state", "get_history", "lock_doorlock",
     "unlock_doorlock", "get_lock_config", "logout"}

\* the positional arguments a caller passes (get_temperature's device_label
\* and get_history's offset have defaults)
Arguments(op) ==
    IF op = "get_temperature" THEN {<<>>, <<"ABC123">>}
    ELSE IF op = "set_arm_state" THEN {<<"1234", "DISARMED">>}
    ELSE IF op \in {"lock_doorlock", "unlock_doorlock"} THEN {<<"ABC123", "1234">>}
    ELSE IF op = "get_lock_config" THEN {<<"ABC123">>}
    ELSE {<<>>}

\* the attributes of self a method reads to build its request, in the order
\* Python evaluates them
AttributesRead(op) ==
    IF op \in {"set_arm_state", "get_lock_config"} THEN <<"session", "_giid", "_vid">>
    ELSE IF op = "logout" THEN <<"session", "_vid">>
    ELSE <<"session", "_username", "_password", "_panel">>

\* the method of self.session the operation calls
HttpMethod(op) ==
    IF op = "set_arm_state" THEN "PUT" ELSE IF op = "logout" THEN "DELETE" ELSE "GET"

\* Session.__init__(username, password, panel)
NewSession(username, password, panel) ==
    [_username |-> username, _password |-> password, _panel |-> panel,
     session |-> "ClientSession"]

\* the first attribute of obj among names that obj does not have, if any
Missing(obj, names) == SelectSeq(names, LAMBDA a : a \notin DOMAIN obj)

\* a Session that kept the response in one place shared by all its calls
SharedFrame(c) == 1

\* the coroutine frame that holds the locals of call c: one frame per call
FrameOf(c) == c

\* a comprehension that keeps the readings of the other devices
RECURSIVE FilterOtherReadings(_, _)
FilterOtherReadings(list, device_label) ==
    IF list = <<>> THEN <<>>
    ELSE IF Head(list).serialNo # device_label
         THEN <<Head(list)>> \o FilterOtherReadings(Tail(list), device_label)
         ELSE FilterOtherReadings(Tail(list), device_label)

\* lines 96-98: [i for i in list if i['serialNo'] == device_label]
RECURSIVE FilterReadings(_, _)
FilterReadings(list, device_label) ==
    IF list = <<>> THEN <<>>
    ELSE IF Head(list).serialNo = device_label
         THEN <<Head(list)>> \o FilterReadings(Tail(list), device_label)
         ELSE FilterReadings(Tail(list), device_label)

\* a loop that stops after the first row
NormalizeFirstRow(rows, t) ==
    IF rows = <<>> THEN Return(<<>>)
    ELSE LET first == fix_date_short(Head(rows).time, t)
         IN  IF first.kind = "raise" THEN first
             ELSE Return(<<[Head(rows) EXCEPT !.time = first.val]>> \o Tail(rows))

\* lines 158-159: for row in res['logs']: row['time'] = fix_date_short(row['time'])
RECURSIVE NormalizeRows(_, _)
NormalizeRows(rows, t) ==
    IF rows = <<>> THEN Return(<<>>)
    ELSE LET first == fix_date_short(Head(rows).time, t)
         IN  IF first.kind = "raise" THEN first
             ELSE LET rest == NormalizeRows(Tail(rows), t)
                  IN  IF rest.kind = "raise" THEN rest
                      ELSE Return(<<[Head(rows) EXCEPT !.time = first.val]>> \o rest.val)

\* lines 86-87
get_arm_state(res, t) ==
    IF "timeex" \notin DOMAIN res THEN Raise("KeyError", <<"timeex">>)
    ELSE LET fixed == fix_date_short(res.timeex, t)
         IN  IF fixed.kind = "raise" THEN fixed
             ELSE Return([res EXCEPT !.timeex = fixed.val])

\* lines 95-99
get_temperature(res, arg) ==
    IF arg = <<>> THEN Return(res)
    ELSE IF "temperatureComponentList" \notin DOMAIN res
         THEN Raise("KeyError", <<"temperatureComponentList">>)
         ELSE Return([res EXCEPT !.temperatureComponentList = FilterReadings(@, arg[1])])

\* lines 158-160
get_history(res, t) ==
    IF "logs" \notin DOMAIN res THEN Raise("KeyError", <<"logs">>)
    ELSE LET rows == NormalizeRows(res.logs, t)
         IN  IF rows.kind = "raise" THEN rows
             ELSE Return([res EXCEPT !.logs = rows.val])

None == <<>>

\* what a method does with the document _validate_response returned
AfterValidate(op, arg, res, t) ==
    IF op = "get_arm_state" THEN get_arm_state(res, t)
    ELSE IF op = "get_temperature" THEN get_temperature(res, arg)
    ELSE IF op = "get_history" THEN get_history(res, t)
    ELSE IF op = "logout" THEN Return(None)
    ELSE Return(res)

(***************************************************************************)
(* The server: the data it holds and the responses it can give.            *)
(***************************************************************************)
Server(timeex, logs, readings) == [timeex |-> timeex, logs |-> logs, readings |-> readings]

TodayAt == Today \o Sp \o T1430

Servers ==
    {Server(t, <<>>, <<>>) : t \in ArmTimes}
        \cup {Server(TodayAt, rows, <<>>) : rows \in SeqsUpTo({Row(t) : t \in LogTimes}, MaxLogs)}
        \cup {Server(TodayAt, <<>>, list) : list \in SeqsUpTo(Readings, MaxReadings)}

ConcurrentServers ==
    {Server(TodayAt, <<Row(TodayAt), Row(D0305 \o Sp \o T0900)>>,
            <<Reading("ABC123", "20.5"), Reading("XYZ999", "21.0")>>),
     Server(NotADate, <<Row(NotADate)>>, <<Reading("XYZ999", "21.0")>>)}

ServerDoc(op, srv) ==
    IF op = "get_arm_state" THEN ArmDoc(srv.timeex)
    ELSE IF op = "get_history" THEN HistoryDoc(srv.logs)
    ELSE IF op = "get_temperature" THEN TempDoc(srv.readings)
    ELSE OkDoc

ServerResponses(op, srv) ==
    {ClientResponse(200, dumps(ServerDoc(op, srv))),
     ClientResponse(200, dumps(EmptyDoc)),
     ClientResponse(200, "<html>Service unavailable</html>"),
     ClientResponse(403, dumps(ErrDoc))}

VARIABLES
    now,          \* what datetime.now() reports
    date_string,  \* the argument of a call of fix_date_short
    fd_pc,        \* "call" before that call, "done" after it
    fd_result,    \* its outcome
    response,     \* the argument of a call of _validate_response
    vr_pc,        \* "call" before that call, "done" after it
    vr_result,    \* its outcome
    credentials,  \* the arguments the Session was constructed with
    self,         \* the Session object: attribute name -> value
    server,       \* the data the server holds
    calls,        \* per call: the method, its arguments, where it is, its outcome
    net,          \* per call: the requests it issued on self.session and the reply
    locals        \* per coroutine frame: the local variable response

fnvars == <<date_string, fd_pc, fd_result, response, vr_pc, vr_result>>

sessvars == <<credentials, self, server, calls, net, locals>>

vars == <<now, date_string, fd_pc, fd_result, response, vr_pc, vr_result,
          credentials, self, server, calls, net, locals>>

NoOutcome == [kind |-> "none", val |-> <<>>, exc |-> "", arg |-> <<>>]

NoFixDate == date_string = <<>> /\ fd_pc = "unused" /\ fd_result = NoOutcome

NoValidate == response = NoResponse /\ vr_pc = "unused" /\ vr_result = NoOutcome

Idle == [op |-> "", arg |-> <<>>, pc |-> "idle", outcome |-> NoOutcome]

Quiet == [sent |-> <<>>, failed |-> FALSE, reply |-> NoResponse]

Usernames == {"user@example.com"}

Passwords == {"secret"}

Panels == {"01234567"}

\* the state after Session(username, password, panel), with callers ids
InitSession(ids) ==
    /\ credentials \in Usernames \X Passwords \X Panels
    /\ self = NewSession(credentials[1], credentials[2], credentials[3])
    /\ calls = [c \in ids |-> Idle]
    /\ net = [c \in ids |-> Quiet]
    /\ locals = [f \in {FrameOf(c) : c \in ids} |-> NoResponse]

NoSession ==
    /\ credentials = <<"", "", "">>
    /\ self = <<>>
    /\ server = Server(<<>>, <<>>, <<>>)
    /\ calls = <<>>
    /\ net = <<>>
    /\ locals = <<>>

(***************************************************************************)
(* SpecDate: fix_date_short applied to every string at every instant.      *)
(***************************************************************************)
InitDate ==
    /\ now \in RefNows
    /\ date_string \in DateStrings
    /\ fd_pc = "call"
    /\ fd_result = NoOutcome
    /\ NoValidate
    /\ NoSession

CallFixDateShort ==
    /\ fd_pc = "call"
    /\ fd_result' = fix_date_short(date_string, now)
    /\ fd_pc' = "done"
    /\ UNCHANGED <<now, date_string, response, vr_pc, vr_result, sessvars>>

NextDate == CallFixDateShort

SpecDate == InitDate /\ [][NextDate]_vars

(***************************************************************************)
(* SpecValidate: _validate_response applied to every response.             *)
(***************************************************************************)
InitValidate ==
    /\ now \in {Date(2024, 3, 5)}
    /\ response \in {ClientResponse(s, b) : s \in Statuses, b \in Bodies}
    /\ vr_pc = "call"
    /\ vr_result = NoOutcome
    /\ NoFixDate
    /\ NoSession

CallValidateResponse ==
    /\ vr_pc = "call"
    /\ vr_result' = _validate_response(response)
    /\ vr_pc' = "done"
    /\ UNCHANGED <<now, date_string, fd_pc, fd_result, response, sessvars>>

NextValidate == CallValidateResponse

SpecValidate == InitValidate /\ [][NextValidate]_vars

(***************************************************************************)
(* The steps of a call c of an operation method.                           *)
(***************************************************************************)
\* The caller calls self.op(*arg): the method sets response = None, reads
\* the attributes of self for the URL and the headers, and issues the
\* request on self.session; a missing attribute raises before any request.
Invoke(c, op, arg) ==
    /\ calls[c].pc = "idle"
    /\ LET missing == Missing(self, AttributesRead(op))
       IN  IF missing # <<>>
           THEN /\ calls' = [calls EXCEPT ![c] =
                        [op |-> op, arg |-> arg, pc |-> "done",
                         outcome |-> Raise("AttributeError", <<Head(missing)>>)]]
                /\ net' = [net EXCEPT ![c] = Quiet]
           ELSE /\ calls' = [calls EXCEPT ![c] =
                        [op |-> op, arg |-> arg, pc |-> "request", outcome |-> NoOutcome]]
                /\ net' = [net EXCEPT ![c] = [Quiet EXCEPT !.sent = <<HttpMethod(op)>>]]
    /\ locals' = [locals EXCEPT ![FrameOf(c)] = NoResponse]
    /\ UNCHANGED <<now, fnvars, credentials, self, server>>

\* The request fails in the transport: aiohttp raises ClientError into the
\* method, which does not catch it.
TransportFails(c) ==
    /\ calls[c].pc = "request"
    /\ net' = [net EXCEPT ![c].failed = TRUE]
    /\ calls' = [calls EXCEPT ![c].pc = "done", ![c].outcome = Raise("ClientError", <<>>)]
    /\ UNCHANGED <<now, fnvars, credentials, self, server, locals>>

\* The response r arrives: the method binds it to response and calls
\* _validate_response, which raises at once for a status other than 200 and
\* otherwise awaits the body in response.json().
Respond(c, r) ==
    /\ calls[c].pc = "request"
    /\ net' = [net EXCEPT ![c].reply = r]
    /\ locals' = [locals EXCEPT ![FrameOf(c)] = r]
    /\ IF locals'[FrameOf(c)].status = 200
       THEN calls' = [calls EXCEPT ![c].pc = "json"]
       ELSE calls' = [calls EXCEPT ![c].pc = "done",
                                   ![c].outcome = _validate_response(locals'[FrameOf(c)])]
    /\ UNCHANGED <<now, fnvars, credentials, self, server>>

\* The body has been read: _validate_response returns the document or raises,
\* and the method finishes with what it does to the document.
ReadJson(c) ==
    /\ calls[c].pc = "json"
    /\ LET res == _validate_response(locals[FrameOf(c)])
       IN  calls' = [calls EXCEPT
               ![c].pc = "done",
               ![c].outcome = IF res.kind = "raise" THEN res
                              ELSE AfterValidate(calls[c].op, calls[c].arg, res.val, now)]
    /\ UNCHANGED <<now, fnvars, credentials, self, server, net, locals>>

\* The caller has the outcome; c can make the next call.
Finish(c) ==
    /\ calls[c].pc = "done"
    /\ calls' = [calls EXCEPT ![c] = Idle]
    /\ net' = [net EXCEPT ![c] = Quiet]
    /\ locals' = [locals EXCEPT ![FrameOf(c)] = NoResponse]
    /\ UNCHANGED <<now, fnvars, credentials, self, server>>

CallerInvokes ==
    \E c \in DOMAIN calls : \E op \in Operations : \E arg \in Arguments(op) : Invoke(c, op, arg)

\* the operations the concurrent callers use: the three that work on the
\* document, one that passes it through and one that reads a missing attribute
ConcurrentOperations ==
    {"get_arm_state", "get_temperature", "get_history", "get_ethernet_status", "logout"}

ConcurrentCallerInvokes ==
    \E c \in DOMAIN calls : \E op \in ConcurrentOperations : \E arg \in Arguments(op) :
        Invoke(c, op, arg)

TransportError == \E c \in DOMAIN calls : TransportFails(c)

ServerResponds ==
    \E c \in DOMAIN calls :
        /\ calls[c].pc = "request"
        /\ \E r \in ServerResponses(calls[c].op, server) : Respond(c, r)

BodyRead == \E c \in DOMAIN calls : ReadJson(c)

CallerResumes == \E c \in DOMAIN calls : Finish(c)

(***************************************************************************)
(* Spec: one caller using the Session call after call, over every server.  *)
(***************************************************************************)
Init ==
    /\ now \in RefNows
    /\ server \in Servers
    /\ InitSession({1})
    /\ NoFixDate
    /\ NoValidate

Next == CallerInvokes \/ TransportError \/ ServerResponds \/ BodyRead \/ CallerResumes

Spec == Init /\ [][Next]_vars

(***************************************************************************)
(* SpecConcurrent: NCalls callers whose calls on the Session interleave.   *)
(***************************************************************************)
InitConcurrent ==
    /\ now \in {Date(2024, 3, 5)}
    /\ server \in ConcurrentServers
    /\ InitSession(1..NCalls)
    /\ NoFixDate
    /\ NoValidate

NextConcurrent ==
    ConcurrentCallerInvokes \/ TransportError \/ ServerResponds \/ BodyRead \/ CallerResumes

SpecConcurrent == InitConcurrent /\ [][NextConcurrent]_vars

(***************************************************************************)
(* The shapes the claims speak of.                                         *)
(***************************************************************************)
\* "NN:NN" with an hour of the day and a minute of the hour
IsHHMM(t) ==
    /\ Len(t) = 5
    /\ IsDigit(t[1]) /\ IsDigit(t[2]) /\ t[3] = ":" /\ IsDigit(t[4]) /\ IsDigit(t[5])
    /\ 10 * DigitVal(t[1]) + DigitVal(t[2]) <= 23
    /\ 10 * DigitVal(t[4]) + DigitVal(t[5]) <= 59

\* "NN/NN"
IsMMDD(t) ==
    /\ Len(t) = 5
    /\ IsDigit(t[1]) /\ IsDigit(t[2]) /\ t[3] = "/" /\ IsDigit(t[4]) /\ IsDigit(t[5])

Num2(t, i) == 10 * DigitVal(t[i]) + DigitVal(t[i + 1])

\* "MM/DD HH:MM"
IsShortDate(s) ==
    Len(s) = 11 /\ IsMMDD(SubSeq(s, 1, 5)) /\ s[6] = " " /\ IsHHMM(SubSeq(s, 7, 11))

IsTodayForm(s) == Len(s) = 11 /\ SubSeq(s, 1, 6) = Today \o Sp /\ IsHHMM(SubSeq(s, 7, 11))

IsYesterdayForm(s) ==
    Len(s) = 15 /\ SubSeq(s, 1, 10) = Yesterday \o Sp /\ IsHHMM(SubSeq(s, 11, 15))

Recognized(s) == IsShortDate(s) \/ IsTodayForm(s) \/ IsYesterdayForm(s)

\* "YYYY-MM-DDTHH:MM:SS"
IsISO(s) ==
    /\ Len(s) = 19
    /\ \A i \in {1, 2, 3, 4, 6, 7, 9, 10, 12, 13, 15, 16, 18, 19} : IsDigit(s[i])
    /\ s[5] = "-" /\ s[8] = "-" /\ s[11] = "T" /\ s[14] = ":" /\ s[17] = ":"
    /\ ValidDate(1000 * DigitVal(s[1]) + 100 * DigitVal(s[2]) + Num2(s, 3), Num2(s, 6), Num2(s, 9))
    /\ Num2(s, 12) <= 23 /\ Num2(s, 15) <= 59 /\ Num2(s, 18) <= 59

\* the ISO timestamp of year y, month m, day d, h:mi:00
Iso(y, m, d, h, mi) ==
    Fmt4(y) \o <<"-">> \o Fmt2(m) \o <<"-">> \o Fmt2(d) \o <<"T">> \o Fmt2(h) \o <<":">>
        \o Fmt2(mi) \o <<":", "0", "0">>

(***************************************************************************)
(* C1: for every response whose status is not 200 and whose body is valid  *)
(* JSON, _validate_response raises ResponseError carrying the status code  *)
(* and the decoded body.                                                   *)
(***************************************************************************)
C1_ResponseErrorRaised ==
    (vr_pc = "done" /\ response.status # 200 /\ json_loads(response.body).kind = "return")
        => /\ vr_result.kind = "raise"
           /\ vr_result.exc = "ResponseError"
           /\ vr_result.arg = <<response.status, json_loads(response.body).val>>

(***************************************************************************)
(* C3: for every string of none of the three recognized shapes,            *)
(* fix_date_short raises ParseError carrying the string.                   *)
(***************************************************************************)
C3_ParseErrorRaised ==
    (fd_pc = "done" /\ ~Recognized(date_string))
        => /\ fd_result.kind = "raise"
           /\ fd_result.exc = "ParseError"
           /\ fd_result.arg = date_string

(***************************************************************************)
(* C4: for every "MM/DD HH:MM" that is a date of the reference year        *)
(* (02/29 in a leap year included), fix_date_short returns the ISO         *)
(* timestamp of that year with the same month, day, hour and minute.       *)
(***************************************************************************)
C4_ShortDateKeepsFields ==
    (/\ fd_pc = "done"
     /\ IsShortDate(date_string)
     /\ ValidDate(now.year, Num2(date_string, 1), Num2(date_string, 4)))
        => /\ fd_result.kind = "return"
           /\ fd_result.val = Iso(now.year, Num2(date_string, 1), Num2(date_string, 4),
                                  Num2(date_string, 7), Num2(date_string, 10))

(***************************************************************************)
(* C5: "Today HH:MM" and "Yesterday HH:MM" both return the ISO timestamp   *)
(* of the reference instant's own year, month and day at HH:MM:00, which   *)
(* is what fix_date_short returns for the instant's "MM/DD" and that time. *)
(***************************************************************************)
C5_TodayYesterdayAreNow ==
    (fd_pc = "done" /\ (IsTodayForm(date_string) \/ IsYesterdayForm(date_string)))
        => LET t == SubSeq(date_string, Len(date_string) - 4, Len(date_string))
           IN  /\ fd_result.kind = "return"
               /\ fd_result.val = Iso(now.year, now.month, now.day, Num2(t, 1), Num2(t, 4))
               /\ fd_result = fix_date_short(strftime_md(now) \o Sp \o t, now)

(***************************************************************************)
(* What the claims about the Session speak of.                             *)
(***************************************************************************)
Done(c) == calls[c].pc = "done"

Returned(c) == Done(c) /\ calls[c].outcome.kind = "return"

\* the document of the 200 response to c's request
Payload(c) == json_loads(net[c].reply.body)

Answered200(c) == net[c].reply.status = 200 /\ Payload(c).kind = "return"

\* what the network result n alone makes of a call of op
FromReply(op, arg, n, t) ==
    IF n.failed THEN Raise("ClientError", <<>>)
    ELSE LET res == _validate_response(n.reply)
         IN  IF res.kind = "raise" THEN res ELSE AfterValidate(op, arg, res.val, t)

\* the outcome of a call of op run alone with the network result n
RunAlone(op, arg, n, t) ==
    IF Missing(self, AttributesRead(op)) # <<>>
    THEN Raise("AttributeError", <<Head(Missing(self, AttributesRead(op)))>>)
    ELSE FromReply(op, arg, n, t)

(***************************************************************************)
(* C2: every finished call of every operation has issued exactly one HTTP  *)
(* request on the session's client, whether it succeeded or failed.        *)
(***************************************************************************)
C2_ExactlyOneRequest ==
    \A c \in DOMAIN calls :
        /\ Len(net[c].sent) <= 1
        /\ Done(c) => Len(net[c].sent) = 1

(***************************************************************************)
(* C6: whenever get_arm_state or get_history returns, every date field of  *)
(* the result is an absolute ISO-8601 timestamp and none is in short form. *)
(***************************************************************************)
C6_ReturnedDatesAreISO ==
    \A c \in DOMAIN calls :
        /\ (Returned(c) /\ calls[c].op = "get_arm_state")
              => /\ IsISO(calls[c].outcome.val.timeex)
                 /\ ~Recognized(calls[c].outcome.val.timeex)
        /\ (Returned(c) /\ calls[c].op = "get_history")
              => /\ Len(calls[c].outcome.val.logs) = Len(Payload(c).val.logs)
                 /\ \A i \in 1..Len(calls[c].outcome.val.logs) :
                        /\ IsISO(calls[c].outcome.val.logs[i].time)
                        /\ ~Recognized(calls[c].outcome.val.logs[i].time)

\* get_history has returned two entries, the second of which came in short form
C6_Witness ==
    \E c \in DOMAIN calls :
        /\ Returned(c)
        /\ calls[c].op = "get_history"
        /\ Len(calls[c].outcome.val.logs) >= 2
        /\ Recognized(Payload(c).val.logs[2].time)

(***************************************************************************)
(* C7: get_history on a 200 payload with a log entry whose time matches no *)
(* recognized shape, at any position, fails with ParseError.               *)
(***************************************************************************)
C7_MalformedEntryParseError ==
    \A c \in DOMAIN calls :
        (/\ Done(c)
         /\ calls[c].op = "get_history"
         /\ Answered200(c)
         /\ "logs" \in DOMAIN Payload(c).val
         /\ \E i \in 1..Len(Payload(c).val.logs) : ~Recognized(Payload(c).val.logs[i].time))
            => /\ calls[c].outcome.kind = "raise"
               /\ calls[c].outcome.exc = "ParseError"

(***************************************************************************)
(* C8: get_temperature with a device label returns exactly the readings of *)
(* the 200 payload whose serial number equals the label, in their order    *)
(* (none when none matches); without a label it returns the payload as is. *)
(***************************************************************************)
C8_TemperatureFiltered ==
    \A c \in DOMAIN calls :
        (/\ Done(c)
         /\ calls[c].op = "get_temperature"
         /\ Answered200(c)
         /\ "temperatureComponentList" \in DOMAIN Payload(c).val)
            => /\ calls[c].outcome.kind = "return"
               /\ DOMAIN calls[c].outcome.val = DOMAIN Payload(c).val
               /\ calls[c].outcome.val.temperatureComponentList =
                      IF calls[c].arg = <<>> THEN Payload(c).val.temperatureComponentList
                      ELSE SelectSeq(Payload(c).val.temperatureComponentList,
                                     LAMBDA r : r.serialNo = calls[c].arg[1])

\* a label was given, the payload held its device and another, one reading came back
C8_Witness ==
    \E c \in DOMAIN calls :
        /\ Returned(c)
        /\ calls[c].op = "get_temperature"
        /\ calls[c].arg # <<>>
        /\ Len(Payload(c).val.temperatureComponentList) = 2
        /\ Payload(c).val.temperatureComponentList[1].serialNo # calls[c].arg[1]
        /\ Payload(c).val.temperatureComponentList[2].serialNo = calls[c].arg[1]
        /\ Len(calls[c].outcome.val.temperatureComponentList) = 1

(***************************************************************************)
(* C9: the Session keeps no logged-in state: after any calls its username, *)
(* password, panel and client are those of its construction, and every    *)
(* call issues its request and ends as the response to it decides.         *)
(***************************************************************************)
C9_NoSessionState ==
    /\ self = NewSession(credentials[1], credentials[2], credentials[3])
    /\ \A c \in DOMAIN calls :
           Done(c) => /\ net[c].sent = <<HttpMethod(calls[c].op)>>
                      /\ calls[c].outcome = FromReply(calls[c].op, calls[c].arg, net[c], now)

(***************************************************************************)
(* C10: under every interleaving of concurrent calls, each call validates  *)
(* and works on the response to its own request only and ends as it would  *)
(* have ended alone with that response.                                    *)
(***************************************************************************)
C10_OwnResponseOnly ==
    \A c \in DOMAIN calls :
        /\ calls[c].pc = "json" => locals[FrameOf(c)] = net[c].reply
        /\ Done(c) => calls[c].outcome = RunAlone(calls[c].op, calls[c].arg, net[c], now)

\* one call has returned while another, answered differently, awaits its body
C10_Witness ==
    \E c \in DOMAIN calls : \E d \in DOMAIN calls :
        /\ c # d
        /\ Returned(c)
        /\ calls[d].pc = "json"
        /\ net[c].reply # net[d].reply

====
